------------------------------ MODULE Spec2Model ------------------------------
(***************************************************************************)
(* AES-128 block cipher engine: GF(2^8) arithmetic, the round transforms,  *)
(* the key schedule, the block core (encrypt_block / decrypt_block) and    *)
(* the block-mode wrapper (encrypt / decrypt with PKCS7 padding).          *)
(*                                                                         *)
(* Conventions.  A Python bytes/list value is a sequence of 0..255; Python *)
(* index i is TLA+ index i+1.  A State is a 4-tuple of rows, each row a    *)
(* 4-tuple of bytes: state[row][col] of the source is state[row+1][col+1]  *)
(* here.  The list of round keys is an 11-tuple of States, round_keys[r]   *)
(* of the source being round_keys[r+1] here.  Tuples are written out       *)
(* element by element so that every transform is evaluated once.           *)
(***************************************************************************)
EXTENDS Integers, Sequences, FiniteSets, TLC

(***************************************************************************)
(* Python's operators on integers and sequences.                           *)
(***************************************************************************)
\* a ^ b on 4-bit values, tabulated: XorNibble[a+1][b+1] = a ^ b
XorNibble ==
  <<
      << 0, 1, 2, 3, 4, 5, 6, 7, 8, 9, 10, 11, 12, 13, 14, 15 >>,
      << 1, 0, 3, 2, 5, 4, 7, 6, 9, 8, 11, 10, 13, 12, 15, 14 >>,
      << 2, 3, 0, 1, 6, 7, 4, 5, 10, 11, 8, 9, 14, 15, 12, 13 >>,
      << 3, 2, 1, 0, 7, 6, 5, 4, 11, 10, 9, 8, 15, 14, 13, 12 >>,
      << 4, 5, 6, 7, 0, 1, 2, 3, 12, 13, 14, 15, 8, 9, 10, 11 >>,
      << 5, 4, 7, 6, 1, 0, 3, 2, 13, 12, 15, 14, 9, 8, 11, 10 >>,
      << 6, 7, 4, 5, 2, 3, 0, 1, 14, 15, 12, 13, 10, 11, 8, 9 >>,
      << 7, 6, 5, 4, 3, 2, 1, 0, 15, 14, 13, 12, 11, 10, 9, 8 >>,
      << 8, 9, 10, 11, 12, 13, 14, 15, 0, 1, 2, 3, 4, 5, 6, 7 >>,
      << 9, 8, 11, 10, 13, 12, 15, 14, 1, 0, 3, 2, 5, 4, 7, 6 >>,
      << 10, 11, 8, 9, 14, 15, 12, 13, 2, 3, 0, 1, 6, 7, 4, 5 >>,
      << 11, 10, 9, 8, 15, 14, 13, 12, 3, 2, 1, 0, 7, 6, 5, 4 >>,
      << 12, 13, 14, 15, 8, 9, 10, 11, 4, 5, 6, 7, 0, 1, 2, 3 >>,
      << 13, 12, 15, 14, 9, 8, 11, 10, 5, 4, 7, 6, 1, 0, 3, 2 >>,
      << 14, 15, 12, 13, 10, 11, 8, 9, 6, 7, 4, 5, 2, 3, 0, 1 >>,
      << 15, 14, 13, 12, 11, 10, 9, 8, 7, 6, 5, 4, 3, 2, 1, 0 >> >>

\* a ^ b on non-negative integers, four bits at a time
RECURSIVE Xor(_, _)
Xor(a, b) ==
  IF a < 16 /\ b < 16
    THEN XorNibble[a + 1][b + 1]
    ELSE 16 * Xor(a \div 16, b \div 16) + XorNibble[(a % 16) + 1][(b % 16) + 1]

\* data[lo:hi] for 0 <= lo <= hi: Python clamps hi to len(data)
Slice(data, lo, hi) ==
  SubSeq(data, lo + 1, IF hi < Len(data) THEN hi ELSE Len(data))

\* bytes([v] * n)
RECURSIVE Repeat(_, _)
Repeat(v, n) ==
  IF n <= 0 THEN << >> ELSE << v >> \o Repeat(v, n - 1)

(***************************************************************************)
(* encryption/mix_columns.py: GF(2^8) arithmetic and MixColumns            *)
(***************************************************************************)
\* xtime without the reduction by the field polynomial
xtime_noreduce(a) ==
  (2 * a) % 256

\* xtime reducing by 0x1d instead of the field polynomial's 0x1b
xtime_wrong_poly(a) ==
  IF (a \div 128) % 2 = 1
    THEN Xor(2 * a, 29) % 256
    ELSE (2 * a) % 256

\* xtime without the & 0xff
xtime_nomask(a) ==
  IF (a \div 128) % 2 = 1
    THEN Xor(2 * a, 27)
    ELSE 2 * a

xtime(a) ==
  IF (a \div 128) % 2 = 1
    THEN Xor(2 * a, 27) % 256
    ELSE (2 * a) % 256

\* a loop that stops at the last bit of temp_b instead of after it
RECURSIVE gf_mult_loop_early_exit(_, _, _)
gf_mult_loop_early_exit(result, temp_a, temp_b) ==
  IF temp_b <= 1
    THEN result
    ELSE gf_mult_loop_early_exit(
           IF temp_b % 2 = 1 THEN Xor(result, temp_a) ELSE result,
           xtime(temp_a), temp_b \div 2)

\* the while loop of gf_mult, on its three locals
RECURSIVE gf_mult_loop(_, _, _)
gf_mult_loop(result, temp_a, temp_b) ==
  IF temp_b = 0
    THEN result
    ELSE gf_mult_loop(IF temp_b % 2 = 1 THEN Xor(result, temp_a) ELSE result,
                      xtime(temp_a), temp_b \div 2)

gf_mult(a, b) ==
  gf_mult_loop(0, a, b)

mix_single_column(column) ==
  LET s0 == column[1]
      s1 == column[2]
      s2 == column[3]
      s3 == column[4]
  IN  << Xor(Xor(Xor(gf_mult(2, s0), gf_mult(3, s1)), s2), s3),
         Xor(Xor(Xor(s0, gf_mult(2, s1)), gf_mult(3, s2)), s3),
         Xor(Xor(Xor(s0, s1), gf_mult(2, s2)), gf_mult(3, s3)),
         Xor(Xor(Xor(gf_mult(3, s0), s1), s2), gf_mult(2, s3)) >>

\* [state[row][col] for row in range(4)], col counted from 1
Column(state, col) ==
  << state[1][col], state[2][col], state[3][col], state[4][col] >>

\* result[row][col] = new_column[row] for the four transformed columns
FromColumns(c0, c1, c2, c3) ==
  << << c0[1], c1[1], c2[1], c3[1] >>,
     << c0[2], c1[2], c2[2], c3[2] >>,
     << c0[3], c1[3], c2[3], c3[3] >>,
     << c0[4], c1[4], c2[4], c3[4] >> >>

mix_columns(state) ==
  LET c0 == mix_single_column(Column(state, 1))
      c1 == mix_single_column(Column(state, 2))
      c2 == mix_single_column(Column(state, 3))
      c3 == mix_single_column(Column(state, 4))
  IN  FromColumns(c0, c1, c2, c3)

(***************************************************************************)
(* encryption/shift_rows.py                                                *)
(***************************************************************************)
\* row[n:] + row[:n]
RotLeft(row, n) ==
  SubSeq(row, n + 1, Len(row)) \o SubSeq(row, 1, n)

\* ShiftRows rotating every row but the first by one position
shift_rows_by_one(state) ==
  << state[1], RotLeft(state[2], 1), RotLeft(state[3], 1), RotLeft(state[4], 1) >>

shift_rows(state) ==
  << state[1], RotLeft(state[2], 1), RotLeft(state[3], 2), RotLeft(state[4], 3) >>

(***************************************************************************)
(* decryption/inv_mix_columns.py                                           *)
(***************************************************************************)
dec_xtime(a) ==
  IF (a \div 128) % 2 = 1
    THEN Xor(2 * a, 27) % 256
    ELSE (2 * a) % 256

RECURSIVE dec_gf_mult_loop(_, _, _)
dec_gf_mult_loop(result, temp_a, temp_b) ==
  IF temp_b = 0
    THEN result
    ELSE dec_gf_mult_loop(IF temp_b % 2 = 1 THEN Xor(result, temp_a) ELSE result,
                          dec_xtime(temp_a), temp_b \div 2)

dec_gf_mult(a, b) ==
  dec_gf_mult_loop(0, a, b)

\* the inverse matrix with its coefficients 0x0b and 0x0d exchanged
inv_mix_single_column_swapped(column) ==
  LET s0 == column[1]
      s1 == column[2]
      s2 == column[3]
      s3 == column[4]
  IN  << Xor(Xor(Xor(dec_gf_mult(14, s0), dec_gf_mult(13, s1)),
                 dec_gf_mult(11, s2)), dec_gf_mult(9, s3)),
         Xor(Xor(Xor(dec_gf_mult(9, s0), dec_gf_mult(14, s1)),
                 dec_gf_mult(13, s2)), dec_gf_mult(11, s3)),
         Xor(Xor(Xor(dec_gf_mult(11, s0), dec_gf_mult(9, s1)),
                 dec_gf_mult(14, s2)), dec_gf_mult(13, s3)),
         Xor(Xor(Xor(dec_gf_mult(13, s0), dec_gf_mult(11, s1)),
                 dec_gf_mult(9, s2)), dec_gf_mult(14, s3)) >>

inv_mix_single_column(column) ==
  LET s0 == column[1]
      s1 == column[2]
      s2 == column[3]
      s3 == column[4]
  IN  << Xor(Xor(Xor(dec_gf_mult(14, s0), dec_gf_mult(11, s1)),
                 dec_gf_mult(13, s2)), dec_gf_mult(9, s3)),
         Xor(Xor(Xor(dec_gf_mult(9, s0), dec_gf_mult(14, s1)),
                 dec_gf_mult(11, s2)), dec_gf_mult(13, s3)),
         Xor(Xor(Xor(dec_gf_mult(13, s0), dec_gf_mult(9, s1)),
                 dec_gf_mult(14, s2)), dec_gf_mult(11, s3)),
         Xor(Xor(Xor(dec_gf_mult(11, s0), dec_gf_mult(13, s1)),
                 dec_gf_mult(9, s2)), dec_gf_mult(14, s3)) >>

inv_mix_columns(state) ==
  LET c0 == inv_mix_single_column(Column(state, 1))
      c1 == inv_mix_single_column(Column(state, 2))
      c2 == inv_mix_single_column(Column(state, 3))
      c3 == inv_mix_single_column(Column(state, 4))
  IN  FromColumns(c0, c1, c2, c3)

(***************************************************************************)
(* decryption/inv_shift_rows.py                                            *)
(***************************************************************************)
\* row[-n:] + row[:-n]
RotRight(row, n) ==
  SubSeq(row, Len(row) - n + 1, Len(row)) \o SubSeq(row, 1, Len(row) - n)

\* InvShiftRows shifting the rows left, as ShiftRows does
inv_shift_rows_left(state) ==
  << state[1], RotLeft(state[2], 1), RotLeft(state[3], 2), RotLeft(state[4], 3) >>

inv_shift_rows(state) ==
  << state[1], RotRight(state[2], 1), RotRight(state[3], 2), RotRight(state[4], 3) >>

(***************************************************************************)
(* decryption/add_round_key.py                                             *)
(***************************************************************************)
\* one row of the result: [state[i][j] ^ round_key[i][j] for j in range(4)]
XorRow(a, b) ==
  << Xor(a[1], b[1]), Xor(a[2], b[2]), Xor(a[3], b[3]), Xor(a[4], b[4]) >>

\* AddRoundKey reading the round key transposed: round_key[j][i]
add_round_key_transposed(state, round_key) ==
  << XorRow(state[1], Column(round_key, 1)), XorRow(state[2], Column(round_key, 2)),
     XorRow(state[3], Column(round_key, 3)), XorRow(state[4], Column(round_key, 4)) >>

add_round_key(state, round_key) ==
  << XorRow(state[1], round_key[1]), XorRow(state[2], round_key[2]),
     XorRow(state[3], round_key[3]), XorRow(state[4], round_key[4]) >>

(***************************************************************************)
(* Modules of the repository that the block core imports: the S-box        *)
(* tables, SubBytes / InvSubBytes, the encryption side's AddRoundKey and   *)
(* the key schedule, as sections 4.2 to 4.4 of the specification and       *)
(* FIPS-197 define them.                                                   *)
(***************************************************************************)
S_BOX ==
  <<
      99, 124, 119, 123, 242, 107, 111, 197, 48, 1, 103, 43, 254, 215, 171, 118,
      202, 130, 201, 125, 250, 89, 71, 240, 173, 212, 162, 175, 156, 164, 114, 192,
      183, 253, 147, 38, 54, 63, 247, 204, 52, 165, 229, 241, 113, 216, 49, 21,
      4, 199, 35, 195, 24, 150, 5, 154, 7, 18, 128, 226, 235, 39, 178, 117,
      9, 131, 44, 26, 27, 110, 90, 160, 82, 59, 214, 179, 41, 227, 47, 132,
      83, 209, 0, 237, 32, 252, 177, 91, 106, 203, 190, 57, 74, 76, 88, 207,
      208, 239, 170, 251, 67, 77, 51, 133, 69, 249, 2, 127, 80, 60, 159, 168,
      81, 163, 64, 143, 146, 157, 56, 245, 188, 182, 218, 33, 16, 255, 243, 210,
      205, 12, 19, 236, 95, 151, 68, 23, 196, 167, 126, 61, 100, 93, 25, 115,
      96, 129, 79, 220, 34, 42, 144, 136, 70, 238, 184, 20, 222, 94, 11, 219,
      224, 50, 58, 10, 73, 6, 36, 92, 194, 211, 172, 98, 145, 149, 228, 121,
      231, 200, 55, 109, 141, 213, 78, 169, 108, 86, 244, 234, 101, 122, 174, 8,
      186, 120, 37, 46, 28, 166, 180, 198, 232, 221, 116, 31, 75, 189, 139, 138,
      112, 62, 181, 102, 72, 3, 246, 14, 97, 53, 87, 185, 134, 193, 29, 158,
      225, 248, 152, 17, 105, 217, 142, 148, 155, 30, 135, 233, 206, 85, 40, 223,
      140, 161, 137, 13, 191, 230, 66, 104, 65, 153, 45, 15, 176, 84, 187, 22 >>

INV_S_BOX ==
  <<
      82, 9, 106, 213, 48, 54, 165, 56, 191, 64, 163, 158, 129, 243, 215, 251,
      124, 227, 57, 130, 155, 47, 255, 135, 52, 142, 67, 68, 196, 222, 233, 203,
      84, 123, 148, 50, 166, 194, 35, 61, 238, 76, 149, 11, 66, 250, 195, 78,
      8, 46, 161, 102, 40, 217, 36, 178, 118, 91, 162, 73, 109, 139, 209, 37,
      114, 248, 246, 100, 134, 104, 152, 22, 212, 164, 92, 204, 93, 101, 182, 146,
      108, 112, 72, 80, 253, 237, 185, 218, 94, 21, 70, 87, 167, 141, 157, 132,
      144, 216, 171, 0, 140, 188, 211, 10, 247, 228, 88, 5, 184, 179, 69, 6,
      208, 44, 30, 143, 202, 63, 15, 2, 193, 175, 189, 3, 1, 19, 138, 107,
      58, 145, 17, 65, 79, 103, 220, 234, 151, 242, 207, 206, 240, 180, 230, 115,
      150, 172, 116, 34, 231, 173, 53, 133, 226, 249, 55, 232, 28, 117, 223, 110,
      71, 241, 26, 113, 29, 41, 197, 137, 111, 183, 98, 14, 170, 24, 190, 27,
      252, 86, 62, 75, 198, 210, 121, 32, 154, 219, 192, 254, 120, 205, 90, 244,
      31, 221, 168, 51, 136, 7, 199, 49, 177, 18, 16, 89, 39, 128, 236, 95,
      96, 81, 127, 169, 25, 181, 74, 13, 45, 229, 122, 159, 147, 201, 156, 239,
      160, 224, 59, 77, 174, 42, 245, 176, 200, 235, 187, 60, 131, 83, 153, 97,
      23, 43, 4, 126, 186, 119, 214, 38, 225, 105, 20, 99, 85, 33, 12, 125 >>

SubRow(table, row) ==
  << table[row[1] + 1], table[row[2] + 1], table[row[3] + 1], table[row[4] + 1] >>

sub_bytes(state) ==
  << SubRow(S_BOX, state[1]), SubRow(S_BOX, state[2]),
     SubRow(S_BOX, state[3]), SubRow(S_BOX, state[4]) >>

inv_sub_bytes(state) ==
  << SubRow(INV_S_BOX, state[1]), SubRow(INV_S_BOX, state[2]),
     SubRow(INV_S_BOX, state[3]), SubRow(INV_S_BOX, state[4]) >>

enc_add_round_key(state, round_key) ==
  << XorRow(state[1], round_key[1]), XorRow(state[2], round_key[2]),
     XorRow(state[3], round_key[3]), XorRow(state[4], round_key[4]) >>

\* leading bytes of Rcon[1..10]
RCON ==
  << 1, 2, 4, 8, 16, 32, 64, 128, 27, 54 >>

rot_word(word) ==
  << word[2], word[3], word[4], word[1] >>

sub_word(word) ==
  SubRow(S_BOX, word)

xor_words(a, b) ==
  XorRow(a, b)

\* words w[0..n-1] extended up to w[43]
RECURSIVE ExpandWords(_)
ExpandWords(w) ==
  LET i == Len(w)
      prev == w[i]
      temp == IF i % 4 = 0
                THEN xor_words(sub_word(rot_word(prev)), << RCON[i \div 4], 0, 0, 0 >>)
                ELSE prev
  IN  IF i >= 44 THEN w ELSE ExpandWords(Append(w, xor_words(w[i - 3], temp)))

\* round key r: words 4r .. 4r+3 as the columns of a State
RoundKeyOf(w, r) ==
  FromColumns(w[4 * r + 1], w[4 * r + 2], w[4 * r + 3], w[4 * r + 4])

key_expansion(key) ==
  LET w == ExpandWords(<< Slice(key, 0, 4), Slice(key, 4, 8),
                          Slice(key, 8, 12), Slice(key, 12, 16) >>)
  IN  << RoundKeyOf(w, 0), RoundKeyOf(w, 1), RoundKeyOf(w, 2), RoundKeyOf(w, 3),
         RoundKeyOf(w, 4), RoundKeyOf(w, 5), RoundKeyOf(w, 6), RoundKeyOf(w, 7),
         RoundKeyOf(w, 8), RoundKeyOf(w, 9), RoundKeyOf(w, 10) >>

(***************************************************************************)
(* aes_encrypt.py / aes_decrypt.py: bytes <-> State                        *)
(***************************************************************************)
\* a row-major load: data[4*row + col]
bytes_to_state_row_major(data) ==
  << << data[1], data[2], data[3], data[4] >>,
     << data[5], data[6], data[7], data[8] >>,
     << data[9], data[10], data[11], data[12] >>,
     << data[13], data[14], data[15], data[16] >> >>

\* data[row + 4*col] for col in range(4); needs len(data) >= 16
bytes_to_state(data) ==
  << << data[1], data[5], data[9], data[13] >>,
     << data[2], data[6], data[10], data[14] >>,
     << data[3], data[7], data[11], data[15] >>,
     << data[4], data[8], data[12], data[16] >> >>

state_to_bytes(state) ==
  Column(state, 1) \o Column(state, 2) \o Column(state, 3) \o Column(state, 4)

dec_bytes_to_state(data) ==
  << << data[1], data[5], data[9], data[13] >>,
     << data[2], data[6], data[10], data[14] >>,
     << data[3], data[7], data[11], data[15] >>,
     << data[4], data[8], data[12], data[16] >> >>

dec_state_to_bytes(state) ==
  Column(state, 1) \o Column(state, 2) \o Column(state, 3) \o Column(state, 4)


\* Nr = 10, the number of rounds of AES-128
Nr ==
  10

block_size ==
  16

\* bytes_to_state indexes data[0..15]: a shorter argument raises IndexError
bytes_to_state_raises(data) ==
  Len(data) < 16

\* the States of encrypt_block: after the initial AddRoundKey, then after
\* each main round 1 .. rnd, in order
RECURSIVE encrypt_states(_, _, _)
encrypt_states(plaintext, rks, rnd) ==
  IF rnd = 0
    THEN << enc_add_round_key(bytes_to_state(plaintext), rks[1]) >>
    ELSE LET before == encrypt_states(plaintext, rks, rnd - 1)
         IN  Append(before,
                    enc_add_round_key(mix_columns(shift_rows(sub_bytes(before[rnd]))),
                                      rks[rnd + 1]))

\* encrypt_block(plaintext, key) for len(plaintext) >= 16, start to return
encrypt_block(plaintext, k) ==
  LET rks == key_expansion(k)
      sts == encrypt_states(plaintext, rks, Nr - 1)
  IN  state_to_bytes(enc_add_round_key(shift_rows(sub_bytes(sts[Nr])), rks[Nr + 1]))

\* the States of decrypt_block: after the initial AddRoundKey, then after
\* each main round Nr-1 down to rnd, in order
RECURSIVE decrypt_states(_, _, _)
decrypt_states(ciphertext, rks, rnd) ==
  IF rnd = Nr
    THEN << add_round_key(dec_bytes_to_state(ciphertext), rks[Nr + 1]) >>
    ELSE LET before == decrypt_states(ciphertext, rks, rnd + 1)
         IN  Append(before,
                    inv_mix_columns(
                      add_round_key(inv_sub_bytes(inv_shift_rows(before[Nr - rnd])),
                                    rks[rnd + 1])))

\* decrypt_block(ciphertext, key) for len(ciphertext) >= 16, start to return
decrypt_block(ciphertext, k) ==
  LET rks == key_expansion(k)
      sts == decrypt_states(ciphertext, rks, 1)
  IN  dec_state_to_bytes(add_round_key(inv_sub_bytes(inv_shift_rows(sts[Nr])), rks[1]))

(***************************************************************************)
(* The block-mode wrapper: PKCS7 padding and unpadding                     *)
(***************************************************************************)
\* padding that adds nothing to a message already a multiple of the block size
pkcs7_pad_no_full_block(plaintext) ==
  LET padding_len == (block_size - (Len(plaintext) % block_size)) % block_size
  IN  plaintext \o Repeat(padding_len, padding_len)

\* padded = plaintext + bytes([padding_len] * padding_len)
pkcs7_pad(plaintext) ==
  LET padding_len == block_size - (Len(plaintext) % block_size)
  IN  plaintext \o Repeat(padding_len, padding_len)

\* data[-n:] for n > 0
LastN(data, n) ==
  SubSeq(data, (IF Len(data) > n THEN Len(data) - n ELSE 0) + 1, Len(data))

\* data[:-n] for n > 0
DropLastN(data, n) ==
  SubSeq(data, 1, IF Len(data) > n THEN Len(data) - n ELSE 0)

\* plaintext[-1] raises IndexError on an empty buffer
pkcs7_unpad_raises(plaintext) ==
  Len(plaintext) = 0

\* unpadding that takes a trailer only when it is shorter than a block
pkcs7_unpad_short(plaintext) ==
  LET padding_len == plaintext[Len(plaintext)]
      tail == LastN(plaintext, padding_len)
  IN  IF padding_len > 0 /\ padding_len < block_size
        THEN IF \A k \in 1..Len(tail) : tail[k] = padding_len
               THEN DropLastN(plaintext, padding_len)
               ELSE plaintext
        ELSE plaintext

\* unpadding that strips padding_len bytes without looking at them
pkcs7_unpad_unchecked(plaintext) ==
  LET padding_len == plaintext[Len(plaintext)]
  IN  IF padding_len > 0 /\ padding_len <= block_size
        THEN DropLastN(plaintext, padding_len)
        ELSE plaintext

\* the last lines of decrypt, on a non-empty decrypted buffer
pkcs7_unpad(plaintext) ==
  LET padding_len == plaintext[Len(plaintext)]
      tail == LastN(plaintext, padding_len)
  IN  IF padding_len > 0 /\ padding_len <= block_size
        THEN IF \A k \in 1..Len(tail) : tail[k] = padding_len
               THEN DropLastN(plaintext, padding_len)
               ELSE plaintext
        ELSE plaintext

(***************************************************************************)
(* Inputs: the keys, messages and blocks of the repository's own drivers,  *)
(* cut or continued to every length up to MaxLen.                          *)
(***************************************************************************)
\* the longest message, block or buffer handed to a call
MaxLen ==
  17

\* FIPS-197 Appendix B
FipsKey ==
  << 43, 126, 21, 22, 40, 174, 210, 166, 171, 247, 21, 136, 9, 207, 79, 60 >>

FipsPlaintext ==
  << 50, 67, 246, 168, 136, 90, 48, 141, 49, 49, 152, 162, 224, 55, 7, 52 >>

FipsCiphertext ==
  << 57, 37, 132, 29, 2, 220, 9, 251, 220, 17, 133, 151, 25, 106, 11, 50 >>

\* b"ThisIsASecretKey"
SecretKey ==
  << 84, 104, 105, 115, 73, 115, 65, 83, 101, 99, 114, 101, 116, 75, 101, 121 >>

\* b"Hello, AES-128!"
HelloMessage ==
  << 72, 101, 108, 108, 111, 44, 32, 65, 69, 83, 45, 49, 50, 56, 33 >>

Keys ==
  { FipsKey, SecretKey }

Patterns ==
  { "hello", "count", "pad", "zero" }

\* byte i (from 0) of the pattern: the driver's message repeated, the bytes
\* 00 01 02 .. of solve_aes.py, a run of 0x10, a run of 0x00
PatternByte(p, idx) ==
  CASE p = "hello" -> HelloMessage[(idx % Len(HelloMessage)) + 1]
    [] p = "count" -> idx % 256
    [] p = "pad"   -> block_size
    [] OTHER       -> 0

RECURSIVE PatternBytes(_, _)
PatternBytes(p, n) ==
  IF n = 0 THEN << >> ELSE Append(PatternBytes(p, n - 1), PatternByte(p, n - 1))

\* arguments of encrypt and decrypt: every length 0 .. MaxLen
Messages ==
  { PatternBytes(p, n) : p \in Patterns, n \in 0..MaxLen }

\* arguments of encrypt_block and decrypt_block: one byte short of a block,
\* a block, and anything longer up to MaxLen
Blocks ==
  { PatternBytes(p, n) : p \in Patterns, n \in (block_size - 1)..MaxLen }
    \cup { FipsPlaintext, FipsCiphertext }

\* a block-parallel run has one worker for each block of the longest message
Workers ==
  1..((MaxLen \div block_size) + 1)

\* the regions of memory: the shared one and one for each worker
Regions ==
  {0} \cup Workers

(***************************************************************************)
(* State.  One caller makes a call (encrypt, decrypt, encrypt_block or     *)
(* decrypt_block) and, when it has returned, a second call on the first    *)
(* one's result or argument.  The locals of the running functions are the  *)
(* variables; pc is the statement about to run.                            *)
(***************************************************************************)
VARIABLES
  key,          \* the key argument of every call
  call,         \* the function the caller called: "none" before the first call
  arg,          \* its plaintext / ciphertext argument
  pc,           \* the statement about to run; "returned" / "raised" after the call
  padded,       \* encrypt: padded
  i,            \* encrypt / decrypt: the loop variable i
  acc,          \* encrypt: ciphertext; decrypt: plaintext (as joined by the loop)
  block,        \* encrypt_block / decrypt_block: the plaintext / ciphertext argument
  round_keys,   \* encrypt_block / decrypt_block: round_keys
  state,        \* encrypt_block / decrypt_block: state
  round_num,    \* encrypt_block / decrypt_block: round_num
  result,       \* the value the call returned
  err,          \* the exception the call raised, "none" if none
  n_key_exp,    \* calls of key_expansion since the call began
  n_blocks,     \* calls of encrypt_block / decrypt_block that returned since then
  schedules,    \* the key schedules key_expansion returned since then
  follow,       \* how the second call follows the first; "none" during the first
  first_call,   \* the first call, its argument and its result
  first_arg,
  first_result,
  steps,        \* the steps of the encrypt_block / decrypt_block call in course, in order
  gf_a,         \* gf_mult: the arguments a and b of the call
  gf_b,
  gf_pc,        \* gf_mult: the statement about to run
  gf_result,    \* gf_mult: result
  gf_temp_a,    \* gf_mult: temp_a
  gf_temp_b,    \* gf_mult: temp_b
  gf_iterations, \* gf_mult: passes through the body of the while loop
  job,          \* workers: "encrypt" or "decrypt", "none" before the blocks are handed out
  mem,          \* workers: the lists in memory, by region: 0 shared, w owned by worker w
  wblock,       \* workers: the block handed to each worker
  wpc,          \* workers: the statement each worker is about to run
  wstate,       \* workers: each worker's reference to its State
  wround,       \* workers: each worker's round_num
  slots         \* workers: the output slot of each worker

vars ==
  << key, call, arg, pc, padded, i, acc, block, round_keys, state, round_num,
     result, err, n_key_exp, n_blocks, schedules, follow, first_call, first_arg,
     first_result, steps, gf_a, gf_b, gf_pc, gf_result, gf_temp_a, gf_temp_b,
     gf_iterations, job, mem, wblock, wpc, wstate, wround, slots >>

\* what the workers of a block-parallel run read and write
parallel ==
  << job, mem, wblock, wpc, wstate, wround, slots >>

\* the arguments and locals of a call of gf_mult
gf ==
  << gf_a, gf_b, gf_pc, gf_result, gf_temp_a, gf_temp_b, gf_iterations >>

\* the arguments and locals of the cipher calls
cipher ==
  << key, call, arg, pc, padded, i, acc, block, round_keys, state, round_num,
     result, err, n_key_exp, n_blocks, schedules, follow, first_call, first_arg,
     first_result, steps >>

\* the locals of encrypt_block / decrypt_block
frame ==
  << block, round_keys, state, round_num >>

\* what the caller keeps across its calls
caller ==
  << key, follow, first_call, first_arg, first_result, gf, parallel >>

\* what one call of encrypt / decrypt keeps around the block core
wrapper ==
  << call, arg, padded, i, acc, result, err, n_blocks >>

Init ==
  /\ key \in Keys
  /\ call = "none"
  /\ arg = << >>
  /\ pc = "idle"
  /\ padded = << >>
  /\ i = 0
  /\ acc = << >>
  /\ block = << >>
  /\ round_keys = << >>
  /\ state = << >>
  /\ round_num = 0
  /\ result = << >>
  /\ err = "none"
  /\ n_key_exp = 0
  /\ n_blocks = 0
  /\ schedules = {}
  /\ follow = "none"
  /\ first_call = "none"
  /\ first_arg = << >>
  /\ first_result = << >>
  /\ steps = << >>
  /\ gf_a = 0
  /\ gf_b = 0
  /\ gf_pc = "idle"
  /\ gf_result = 0
  /\ gf_temp_a = 0
  /\ gf_temp_b = 0
  /\ gf_iterations = 0
  /\ job = "none"
  /\ mem = [r \in Regions |-> << >>]
  /\ wblock = [w \in Workers |-> << >>]
  /\ wpc = [w \in Workers |-> "idle"]
  /\ wstate = [w \in Workers |-> << >>]
  /\ wround = [w \in Workers |-> 0]
  /\ slots = [w \in Workers |-> << >>]

\* a call begins: the callee's locals and the counters start afresh
Begin(f, a, start, pad) ==
  /\ call' = f
  /\ arg' = a
  /\ pc' = start
  /\ padded' = pad
  /\ i' = 0
  /\ acc' = << >>
  /\ result' = << >>
  /\ err' = "none"
  /\ n_key_exp' = 0
  /\ n_blocks' = 0
  /\ schedules' = {}
  /\ steps' = << >>
  /\ UNCHANGED << key, gf, parallel >>

\* the caller's first call
First(f, a, start, pad) ==
  /\ pc = "idle"
  /\ Begin(f, a, start, pad)
  /\ UNCHANGED << follow, first_call, first_arg, first_result >>

\* the caller's second call, after the first returned
Second(how, f, a, start, pad) ==
  /\ pc = "returned"
  /\ follow = "none"
  /\ Begin(f, a, start, pad)
  /\ follow' = how
  /\ first_call' = call
  /\ first_arg' = arg
  /\ first_result' = result

\* an exception leaves the block core and the wrapper around it: the call
\* ends with no value
Raise(e) ==
  /\ pc' = "raised"
  /\ err' = e
  /\ UNCHANGED << caller, call, arg, padded, i, acc, result, n_blocks, frame,
                  n_key_exp, schedules, steps >>

\* the block core performs one step of the cipher
Step(op) ==
  steps' = Append(steps, op)

\* one statement of the block core: from statement at to statement to
Goto(at, to) ==
  /\ pc = at
  /\ pc' = to
  /\ UNCHANGED << caller, wrapper >>

(***************************************************************************)
(* aes_encrypt.py: encrypt_block, statement by statement                   *)
(***************************************************************************)
\* a direct call encrypt_block(plaintext, key)
EncryptBlock(plaintext) ==
  /\ First("encrypt_block", plaintext, "eb_key_expansion", << >>)
  /\ block' = plaintext
  /\ UNCHANGED << round_keys, state, round_num >>

\* key expansion that keeps the schedule of an earlier block of the call
EB_KeyExpansion_once ==
  /\ Goto("eb_key_expansion", "eb_bytes_to_state")
  /\ round_keys' = IF n_key_exp = 0 THEN key_expansion(key) ELSE round_keys
  /\ n_key_exp' = IF n_key_exp = 0 THEN 1 ELSE n_key_exp
  /\ schedules' = schedules \cup { round_keys' }
  /\ UNCHANGED << block, state, round_num >>
  /\ Step(<< "KeyExpansion" >>)

\* round_keys = key_expansion(key)
EB_KeyExpansion ==
  /\ Goto("eb_key_expansion", "eb_bytes_to_state")
  /\ round_keys' = key_expansion(key)
  /\ n_key_exp' = n_key_exp + 1
  /\ schedules' = schedules \cup { round_keys' }
  /\ UNCHANGED << block, state, round_num >>
  /\ Step(<< "KeyExpansion" >>)

\* a conversion that keeps the State an earlier call left behind
EB_BytesToState_stale ==
  /\ pc = "eb_bytes_to_state"
  /\ \/ /\ bytes_to_state_raises(block)
        /\ Raise("IndexError")
     \/ /\ ~bytes_to_state_raises(block)
        /\ Goto("eb_bytes_to_state", "eb_initial_add_round_key")
        /\ state' = IF state = << >> THEN bytes_to_state(block) ELSE state
        /\ UNCHANGED << block, round_keys, round_num, n_key_exp, schedules, steps >>

\* state = bytes_to_state(plaintext)
EB_BytesToState ==
  /\ pc = "eb_bytes_to_state"
  /\ \/ /\ bytes_to_state_raises(block)
        /\ Raise("IndexError")
     \/ /\ ~bytes_to_state_raises(block)
        /\ Goto("eb_bytes_to_state", "eb_initial_add_round_key")
        /\ state' = bytes_to_state(block)
        /\ UNCHANGED << block, round_keys, round_num, n_key_exp, schedules, steps >>

\* state = add_round_key(state, round_keys[0]); the loop starts at round 1
EB_InitialAddRoundKey ==
  /\ Goto("eb_initial_add_round_key", "eb_sub_bytes")
  /\ state' = enc_add_round_key(state, round_keys[1])
  /\ round_num' = 1
  /\ UNCHANGED << block, round_keys, n_key_exp, schedules >>
  /\ Step(<< "AddRoundKey", 0 >>)

EB_SubBytes ==
  /\ Goto("eb_sub_bytes", "eb_shift_rows")
  /\ state' = sub_bytes(state)
  /\ UNCHANGED << block, round_keys, round_num, n_key_exp, schedules >>
  /\ Step(<< "SubBytes" >>)

EB_ShiftRows ==
  /\ Goto("eb_shift_rows", "eb_mix_columns")
  /\ state' = shift_rows(state)
  /\ UNCHANGED << block, round_keys, round_num, n_key_exp, schedules >>
  /\ Step(<< "ShiftRows" >>)

EB_MixColumns ==
  /\ Goto("eb_mix_columns", "eb_add_round_key")
  /\ state' = mix_columns(state)
  /\ UNCHANGED << block, round_keys, round_num, n_key_exp, schedules >>
  /\ Step(<< "MixColumns" >>)

\* a loop for round_num in range(1, Nr + 1): one full round too many
EB_AddRoundKey_extra_round ==
  /\ Goto("eb_add_round_key",
          IF round_num + 1 <= Nr THEN "eb_sub_bytes" ELSE "eb_final_sub_bytes")
  /\ state' = enc_add_round_key(state, round_keys[round_num + 1])
  /\ round_num' = IF round_num + 1 <= Nr THEN round_num + 1 ELSE round_num
  /\ UNCHANGED << block, round_keys, n_key_exp, schedules >>
  /\ Step(<< "AddRoundKey", round_num >>)

\* state = add_round_key(state, round_keys[round_num]); next round, or the
\* final round after round Nr - 1
EB_AddRoundKey ==
  /\ Goto("eb_add_round_key",
          IF round_num + 1 < Nr THEN "eb_sub_bytes" ELSE "eb_final_sub_bytes")
  /\ state' = enc_add_round_key(state, round_keys[round_num + 1])
  /\ round_num' = IF round_num + 1 < Nr THEN round_num + 1 ELSE round_num
  /\ UNCHANGED << block, round_keys, n_key_exp, schedules >>
  /\ Step(<< "AddRoundKey", round_num >>)

EB_FinalSubBytes ==
  /\ Goto("eb_final_sub_bytes", "eb_final_shift_rows")
  /\ state' = sub_bytes(state)
  /\ UNCHANGED << block, round_keys, round_num, n_key_exp, schedules >>
  /\ Step(<< "SubBytes" >>)

EB_FinalShiftRows ==
  /\ Goto("eb_final_shift_rows", "eb_final_add_round_key")
  /\ state' = shift_rows(state)
  /\ UNCHANGED << block, round_keys, round_num, n_key_exp, schedules >>
  /\ Step(<< "ShiftRows" >>)

\* state = add_round_key(state, round_keys[Nr])
EB_FinalAddRoundKey ==
  /\ Goto("eb_final_add_round_key", "eb_return")
  /\ state' = enc_add_round_key(state, round_keys[Nr + 1])
  /\ UNCHANGED << block, round_keys, round_num, n_key_exp, schedules >>
  /\ Step(<< "AddRoundKey", Nr >>)

\* return state_to_bytes(state): to the caller, or into encrypt's
\* ciphertext += encrypt_block(block, key) and on to its next i
EB_Return ==
  /\ pc = "eb_return"
  /\ n_blocks' = n_blocks + 1
  /\ \/ /\ call = "encrypt_block"
        /\ result' = state_to_bytes(state)
        /\ pc' = "returned"
        /\ UNCHANGED << acc, i >>
     \/ /\ call = "encrypt"
        /\ acc' = acc \o state_to_bytes(state)
        /\ i' = i + block_size
        /\ pc' = "encrypt_loop"
        /\ UNCHANGED result
  /\ UNCHANGED << caller, call, arg, padded, err, frame, n_key_exp, schedules >>
  /\ Step(<< "Done" >>)

(***************************************************************************)
(* aes_encrypt.py: encrypt                                                 *)
(***************************************************************************)
\* a loop that chains: each block is XORed with the ciphertext block before it
encrypt_loop_block_chained(data, at) ==
  LET blk  == Slice(data, at, at + block_size)
      prev == Slice(acc, at - block_size, at)
  IN  IF at = 0 THEN blk ELSE [k \in 1..Len(blk) |-> Xor(blk[k], prev[k])]

\* the block the loop hands to encrypt_block: padded[i:i+block_size]
encrypt_loop_block(data, at) ==
  Slice(data, at, at + block_size)

\* encrypt(plaintext, key): pad, ciphertext = b''
Encrypt(plaintext) ==
  /\ First("encrypt", plaintext, "encrypt_loop", pkcs7_pad(plaintext))
  /\ UNCHANGED frame

\* for i in range(0, len(padded), block_size): the call of encrypt_block
EncryptNextBlock ==
  /\ pc = "encrypt_loop"
  /\ i < Len(padded)
  /\ block' = encrypt_loop_block(padded, i)
  /\ pc' = "eb_key_expansion"
  /\ UNCHANGED << caller, wrapper, round_keys, state, round_num, n_key_exp, schedules >>
  /\ steps' = << >>

\* return ciphertext
EncryptReturn ==
  /\ pc = "encrypt_loop"
  /\ i >= Len(padded)
  /\ result' = acc
  /\ pc' = "returned"
  /\ UNCHANGED << caller, call, arg, padded, i, acc, err, n_blocks, frame,
                  n_key_exp, schedules >>
  /\ UNCHANGED steps

(***************************************************************************)
(* aes_decrypt.py: decrypt_block, statement by statement                   *)
(***************************************************************************)
\* a direct call decrypt_block(ciphertext, key)
DecryptBlock(ciphertext) ==
  /\ First("decrypt_block", ciphertext, "db_key_expansion", << >>)
  /\ block' = ciphertext
  /\ UNCHANGED << round_keys, state, round_num >>

\* round_keys = key_expansion(key)
DB_KeyExpansion ==
  /\ Goto("db_key_expansion", "db_bytes_to_state")
  /\ round_keys' = key_expansion(key)
  /\ n_key_exp' = n_key_exp + 1
  /\ schedules' = schedules \cup { round_keys' }
  /\ UNCHANGED << block, state, round_num >>
  /\ Step(<< "KeyExpansion" >>)

\* state = bytes_to_state(ciphertext)
DB_BytesToState ==
  /\ pc = "db_bytes_to_state"
  /\ \/ /\ bytes_to_state_raises(block)
        /\ Raise("IndexError")
     \/ /\ ~bytes_to_state_raises(block)
        /\ Goto("db_bytes_to_state", "db_initial_add_round_key")
        /\ state' = dec_bytes_to_state(block)
        /\ UNCHANGED << block, round_keys, round_num, n_key_exp, schedules, steps >>

\* state = add_round_key(state, round_keys[Nr]); the loop starts at round Nr - 1
DB_InitialAddRoundKey ==
  /\ Goto("db_initial_add_round_key", "db_inv_shift_rows")
  /\ state' = add_round_key(state, round_keys[Nr + 1])
  /\ round_num' = Nr - 1
  /\ UNCHANGED << block, round_keys, n_key_exp, schedules >>
  /\ Step(<< "AddRoundKey", Nr >>)

DB_InvShiftRows ==
  /\ Goto("db_inv_shift_rows", "db_inv_sub_bytes")
  /\ state' = inv_shift_rows(state)
  /\ UNCHANGED << block, round_keys, round_num, n_key_exp, schedules >>
  /\ Step(<< "InvShiftRows" >>)

DB_InvSubBytes ==
  /\ Goto("db_inv_sub_bytes", "db_add_round_key")
  /\ state' = inv_sub_bytes(state)
  /\ UNCHANGED << block, round_keys, round_num, n_key_exp, schedules >>
  /\ Step(<< "InvSubBytes" >>)

\* the round keys taken in encryption order: round_keys[Nr - round_num]
DB_AddRoundKey_ascending ==
  /\ Goto("db_add_round_key", "db_inv_mix_columns")
  /\ state' = add_round_key(state, round_keys[Nr - round_num + 1])
  /\ UNCHANGED << block, round_keys, round_num, n_key_exp, schedules >>
  /\ Step(<< "AddRoundKey", Nr - round_num >>)

\* state = add_round_key(state, round_keys[round_num])
DB_AddRoundKey ==
  /\ Goto("db_add_round_key", "db_inv_mix_columns")
  /\ state' = add_round_key(state, round_keys[round_num + 1])
  /\ UNCHANGED << block, round_keys, round_num, n_key_exp, schedules >>
  /\ Step(<< "AddRoundKey", round_num >>)

\* state = inv_mix_columns(state); next round down, or the final round
\* after round 1
DB_InvMixColumns ==
  /\ Goto("db_inv_mix_columns",
          IF round_num - 1 > 0 THEN "db_inv_shift_rows" ELSE "db_final_inv_shift_rows")
  /\ state' = inv_mix_columns(state)
  /\ round_num' = IF round_num - 1 > 0 THEN round_num - 1 ELSE round_num
  /\ UNCHANGED << block, round_keys, n_key_exp, schedules >>
  /\ Step(<< "InvMixColumns" >>)

DB_FinalInvShiftRows ==
  /\ Goto("db_final_inv_shift_rows", "db_final_inv_sub_bytes")
  /\ state' = inv_shift_rows(state)
  /\ UNCHANGED << block, round_keys, round_num, n_key_exp, schedules >>
  /\ Step(<< "InvShiftRows" >>)

DB_FinalInvSubBytes ==
  /\ Goto("db_final_inv_sub_bytes", "db_final_add_round_key")
  /\ state' = inv_sub_bytes(state)
  /\ UNCHANGED << block, round_keys, round_num, n_key_exp, schedules >>
  /\ Step(<< "InvSubBytes" >>)

\* state = add_round_key(state, round_keys[0])
DB_FinalAddRoundKey ==
  /\ Goto("db_final_add_round_key", "db_return")
  /\ state' = add_round_key(state, round_keys[1])
  /\ UNCHANGED << block, round_keys, round_num, n_key_exp, schedules >>
  /\ Step(<< "AddRoundKey", 0 >>)

\* return state_to_bytes(state): to the caller, or into decrypt's
\* plaintext += decrypt_block(block, key) and on to its next i
DB_Return ==
  /\ pc = "db_return"
  /\ n_blocks' = n_blocks + 1
  /\ \/ /\ call = "decrypt_block"
        /\ result' = dec_state_to_bytes(state)
        /\ pc' = "returned"
        /\ UNCHANGED << acc, i >>
     \/ /\ call = "decrypt"
        /\ acc' = acc \o dec_state_to_bytes(state)
        /\ i' = i + block_size
        /\ pc' = "decrypt_loop"
        /\ UNCHANGED result
  /\ UNCHANGED << caller, call, arg, padded, err, frame, n_key_exp, schedules >>
  /\ Step(<< "Done" >>)

(***************************************************************************)
(* aes_decrypt.py: decrypt                                                 *)
(***************************************************************************)
\* the block the loop hands to decrypt_block: ciphertext[i:i+block_size]
decrypt_loop_block(data, at) ==
  Slice(data, at, at + block_size)

\* decrypt(ciphertext, key): plaintext = b''
Decrypt(ciphertext) ==
  /\ First("decrypt", ciphertext, "decrypt_loop", << >>)
  /\ UNCHANGED frame

\* for i in range(0, len(ciphertext), block_size): the call of decrypt_block
DecryptNextBlock ==
  /\ pc = "decrypt_loop"
  /\ i < Len(arg)
  /\ block' = decrypt_loop_block(arg, i)
  /\ pc' = "db_key_expansion"
  /\ UNCHANGED << caller, wrapper, round_keys, state, round_num, n_key_exp, schedules >>
  /\ steps' = << >>

\* after the loop: padding_len = plaintext[-1], the padding check, return
DecryptUnpad ==
  /\ pc = "decrypt_loop"
  /\ i >= Len(arg)
  /\ \/ /\ pkcs7_unpad_raises(acc)
        /\ Raise("IndexError")
     \/ /\ ~pkcs7_unpad_raises(acc)
        /\ result' = pkcs7_unpad(acc)
        /\ pc' = "returned"
        /\ UNCHANGED << caller, call, arg, padded, i, acc, err, n_blocks, frame,
                        n_key_exp, schedules, steps >>

(***************************************************************************)
(* The caller's second call                                                *)
(***************************************************************************)
\* aes_decrypt.py's round trip: decrypted = decrypt(encrypt(message, key), key)
RoundTripDecrypt ==
  /\ call = "encrypt"
  /\ Second("roundtrip", "decrypt", result, "decrypt_loop", << >>)
  /\ UNCHANGED frame

\* decrypt_block(encrypt_block(block, key), key)
RoundTripDecryptBlock ==
  /\ call = "encrypt_block"
  /\ Second("roundtrip", "decrypt_block", result, "db_key_expansion", << >>)
  /\ block' = result
  /\ UNCHANGED << round_keys, state, round_num >>

\* encrypt_block(block, key) a second time, on the same block
RepeatEncryptBlock ==
  /\ call = "encrypt_block"
  /\ Second("repeat", "encrypt_block", arg, "eb_key_expansion", << >>)
  /\ block' = arg
  /\ UNCHANGED << round_keys, state, round_num >>

\* decrypt(encrypt_block(block, key), key): a ciphertext whose decrypted
\* buffer is the block, whatever its last bytes
DecryptOfBlock ==
  /\ call = "encrypt_block"
  /\ Second("unpad", "decrypt", result, "decrypt_loop", << >>)
  /\ UNCHANGED frame

Next ==
  \/ \E m \in Messages : Encrypt(m)
  \/ \E c \in Messages : Decrypt(c)
  \/ \E b \in Blocks : EncryptBlock(b)
  \/ \E b \in Blocks : DecryptBlock(b)
  \/ EncryptNextBlock
  \/ EncryptReturn
  \/ EB_KeyExpansion
  \/ EB_BytesToState
  \/ EB_InitialAddRoundKey
  \/ EB_SubBytes
  \/ EB_ShiftRows
  \/ EB_MixColumns
  \/ EB_AddRoundKey
  \/ EB_FinalSubBytes
  \/ EB_FinalShiftRows
  \/ EB_FinalAddRoundKey
  \/ EB_Return
  \/ DecryptNextBlock
  \/ DecryptUnpad
  \/ DB_KeyExpansion
  \/ DB_BytesToState
  \/ DB_InitialAddRoundKey
  \/ DB_InvShiftRows
  \/ DB_InvSubBytes
  \/ DB_AddRoundKey
  \/ DB_InvMixColumns
  \/ DB_FinalInvShiftRows
  \/ DB_FinalInvSubBytes
  \/ DB_FinalAddRoundKey
  \/ DB_Return
  \/ RoundTripDecrypt
  \/ RoundTripDecryptBlock
  \/ RepeatEncryptBlock
  \/ DecryptOfBlock

Spec ==
  Init /\ [][Next]_vars

(***************************************************************************)
(* encryption/mix_columns.py: a call of gf_mult, statement by statement    *)
(***************************************************************************)
Byte ==
  0..255

\* gf_mult(a, b): result = 0, temp_a = a, temp_b = b
GfMult(a, b) ==
  /\ gf_pc = "idle"
  /\ gf_a' = a
  /\ gf_b' = b
  /\ gf_result' = 0
  /\ gf_temp_a' = a
  /\ gf_temp_b' = b
  /\ gf_iterations' = 0
  /\ gf_pc' = "gf_while"
  /\ UNCHANGED << cipher, parallel >>

\* a body that leaves temp_b as it is
GF_Iterate_no_shift ==
  /\ gf_pc = "gf_while"
  /\ gf_temp_b # 0
  /\ gf_result' = IF gf_temp_b % 2 = 1 THEN Xor(gf_result, gf_temp_a) ELSE gf_result
  /\ gf_temp_a' = xtime(gf_temp_a)
  /\ gf_temp_b' = gf_temp_b
  /\ gf_iterations' = gf_iterations + 1
  /\ UNCHANGED << gf_a, gf_b, gf_pc, cipher, parallel >>

\* while temp_b: if temp_b & 1: result ^= temp_a; temp_a = xtime(temp_a);
\* temp_b >>= 1
GF_Iterate ==
  /\ gf_pc = "gf_while"
  /\ gf_temp_b # 0
  /\ gf_result' = IF gf_temp_b % 2 = 1 THEN Xor(gf_result, gf_temp_a) ELSE gf_result
  /\ gf_temp_a' = xtime(gf_temp_a)
  /\ gf_temp_b' = gf_temp_b \div 2
  /\ gf_iterations' = gf_iterations + 1
  /\ UNCHANGED << gf_a, gf_b, gf_pc, cipher, parallel >>

\* the loop ends: return result
GF_Return ==
  /\ gf_pc = "gf_while"
  /\ gf_temp_b = 0
  /\ gf_pc' = "gf_returned"
  /\ UNCHANGED << gf_a, gf_b, gf_result, gf_temp_a, gf_temp_b, gf_iterations, cipher,
                  parallel >>

GfInit ==
  /\ Init
  /\ key = FipsKey

\* the caller multiplies any two bytes
GfCall ==
  /\ gf_pc = "idle"
  /\ \E a \in Byte, b \in Byte : GfMult(a, b)

GfNext ==
  \/ GfCall
  \/ GF_Iterate
  \/ GF_Return

GfSpec ==
  GfInit /\ [][GfNext]_vars

\* a call that has begun keeps running: nothing suspends the loop
GfFairSpec ==
  GfSpec /\ WF_vars(GF_Iterate) /\ WF_vars(GF_Return)

(***************************************************************************)
(* The lists of the program in memory.  A State is a list of four row      *)
(* lists; a region of memory is the sequence of the lists created in it,   *)
(* a reference is a region and a position in it.  A row holds four bytes,  *)
(* a State (or round key) holds the references to its four rows.           *)
(***************************************************************************)
Deref(m, ref) ==
  m[ref[1]][ref[2]]

\* the 4x4 value of the State (or round key) a reference points to
MatrixAt(m, s) ==
  LET rows == Deref(m, s)
  IN  << Deref(m, rows[1]), Deref(m, rows[2]), Deref(m, rows[3]), Deref(m, rows[4]) >>

\* four new row lists and a new list of them, after the lists of the region
StoreState(objs, reg, value) ==
  LET n == Len(objs)
  IN  objs \o << value[1], value[2], value[3], value[4],
                 << << reg, n + 1 >>, << reg, n + 2 >>, << reg, n + 3 >>,
                    << reg, n + 4 >> >> >>

\* a function returns a newly built State: the memory after and the reference
Fresh(m, w, value) ==
  [ m |-> [m EXCEPT ![w] = StoreState(@, w, value)],
    r |-> << w, Len(m[w]) + 5 >> ]

\* round_keys in the shared region: round key r (from 0) is list 5*r + 5
RoundKeyRef(r) ==
  << 0, 5 * r + 5 >>

RECURSIVE StoreRoundKeys(_, _, _)
StoreRoundKeys(objs, rks, n) ==
  IF n > Len(rks) THEN objs
  ELSE StoreRoundKeys(StoreState(objs, 0, rks[n]), rks, n + 1)

\* state = []; state.append([data[row + 4*col] for col in range(4)])
mem_bytes_to_state(m, w, data) ==
  Fresh(m, w, bytes_to_state(data))

\* ShiftRows whose result shares the list of row 0 with its argument
mem_shift_rows_shared_row(m, w, s) ==
  LET value == shift_rows(MatrixAt(m, s))
      n     == Len(m[w])
  IN  [ m |-> [m EXCEPT ![w] = @ \o << value[2], value[3], value[4],
                                       << Deref(m, s)[1], << w, n + 1 >>,
                                          << w, n + 2 >>, << w, n + 3 >> >> >>],
        r |-> << w, n + 4 >> ]

\* result = [state[0][:], state[1][1:] + state[1][:1], ...]: four new lists
mem_shift_rows(m, w, s) ==
  Fresh(m, w, shift_rows(MatrixAt(m, s)))

mem_inv_shift_rows(m, w, s) ==
  Fresh(m, w, inv_shift_rows(MatrixAt(m, s)))

\* MixColumns writing its result into one matrix that all calls share,
\* kept after the round keys in the shared region
mem_mix_columns_scratch(m, w, s) ==
  LET keys == SubSeq(m[0], 1, 5 * (Nr + 1))
  IN  [ m |-> [m EXCEPT ![0] = StoreState(keys, 0, mix_columns(MatrixAt(m, s)))],
        r |-> << 0, 5 * (Nr + 1) + 5 >> ]

\* result = [[0] * 4 for _ in range(4)], filled column by column
mem_mix_columns(m, w, s) ==
  Fresh(m, w, mix_columns(MatrixAt(m, s)))

mem_inv_mix_columns(m, w, s) ==
  Fresh(m, w, inv_mix_columns(MatrixAt(m, s)))

\* result = []; row = []; row.append(state[i][j] ^ round_key[i][j])
mem_add_round_key(m, w, s, k) ==
  Fresh(m, w, add_round_key(MatrixAt(m, s), MatrixAt(m, k)))

\* the imported transformations: pure, a new State at every stage
mem_sub_bytes(m, w, s) ==
  Fresh(m, w, sub_bytes(MatrixAt(m, s)))

mem_inv_sub_bytes(m, w, s) ==
  Fresh(m, w, inv_sub_bytes(MatrixAt(m, s)))

mem_enc_add_round_key(m, w, s, k) ==
  Fresh(m, w, enc_add_round_key(MatrixAt(m, s), MatrixAt(m, k)))

(***************************************************************************)
(* Blocks handed to workers.  The key schedule is expanded once into the   *)
(* shared region; worker w runs the statements of encrypt_block (or        *)
(* decrypt_block) after the key expansion on block w of the buffer, in its *)
(* own region, and writes its result into its own output slot.  The steps  *)
(* of different workers interleave in any order.                           *)
(***************************************************************************)
\* the buffers cut into blocks: padded messages of one and of two blocks
WorkerBuffers ==
  { pkcs7_pad(PatternBytes(p, n)) :
      p \in {"hello", "count"}, n \in {block_size - 1, block_size, MaxLen} }

\* the blocks are handed out: worker w gets block w of the buffer
Dispatch(j, data) ==
  /\ job = "none"
  /\ job' = j
  /\ mem' = [r \in Regions |->
               IF r = 0 THEN StoreRoundKeys(<< >>, key_expansion(key), 1) ELSE << >>]
  /\ wblock' = [w \in Workers |-> Slice(data, (w - 1) * block_size, w * block_size)]
  /\ wpc' = [w \in Workers |->
               IF (w - 1) * block_size >= Len(data) THEN "unused"
               ELSE IF j = "encrypt" THEN "eb_bytes_to_state" ELSE "db_bytes_to_state"]
  /\ UNCHANGED << wstate, wround, slots, cipher, gf >>

\* one statement of a worker: from statement at to statement to, the
\* statement's result bound to the worker's state
WStep(w, j, at, to, out, rnd) ==
  /\ job = j
  /\ wpc[w] = at
  /\ wpc' = [wpc EXCEPT ![w] = to]
  /\ mem' = out.m
  /\ wstate' = [wstate EXCEPT ![w] = out.r]
  /\ wround' = [wround EXCEPT ![w] = rnd]
  /\ UNCHANGED << job, wblock, slots, cipher, gf >>

\* return state_to_bytes(state), into the worker's own slot
WReturn(w, j, at, bytes) ==
  /\ job = j
  /\ wpc[w] = at
  /\ wpc' = [wpc EXCEPT ![w] = "done"]
  /\ slots' = [slots EXCEPT ![w] = bytes]
  /\ UNCHANGED << job, mem, wblock, wstate, wround, cipher, gf >>

\* state = bytes_to_state(plaintext)
W_EB_BytesToState(w) ==
  WStep(w, "encrypt", "eb_bytes_to_state",
        "eb_initial_add_round_key",
        mem_bytes_to_state(mem, w, wblock[w]),
        wround[w])

\* state = add_round_key(state, round_keys[0])
W_EB_InitialAddRoundKey(w) ==
  WStep(w, "encrypt", "eb_initial_add_round_key",
        "eb_sub_bytes",
        mem_enc_add_round_key(mem, w, wstate[w], RoundKeyRef(0)),
        1)

W_EB_SubBytes(w) ==
  WStep(w, "encrypt", "eb_sub_bytes",
        "eb_shift_rows",
        mem_sub_bytes(mem, w, wstate[w]),
        wround[w])

W_EB_ShiftRows(w) ==
  WStep(w, "encrypt", "eb_shift_rows",
        "eb_mix_columns",
        mem_shift_rows(mem, w, wstate[w]),
        wround[w])

W_EB_MixColumns(w) ==
  WStep(w, "encrypt", "eb_mix_columns",
        "eb_add_round_key",
        mem_mix_columns(mem, w, wstate[w]),
        wround[w])

\* state = add_round_key(state, round_keys[round_num]), and the next round
W_EB_AddRoundKey(w) ==
  WStep(w, "encrypt", "eb_add_round_key",
        IF wround[w] + 1 < Nr THEN "eb_sub_bytes" ELSE "eb_final_sub_bytes",
        mem_enc_add_round_key(mem, w, wstate[w], RoundKeyRef(wround[w])),
        IF wround[w] + 1 < Nr THEN wround[w] + 1 ELSE wround[w])

W_EB_FinalSubBytes(w) ==
  WStep(w, "encrypt", "eb_final_sub_bytes",
        "eb_final_shift_rows",
        mem_sub_bytes(mem, w, wstate[w]),
        wround[w])

W_EB_FinalShiftRows(w) ==
  WStep(w, "encrypt", "eb_final_shift_rows",
        "eb_final_add_round_key",
        mem_shift_rows(mem, w, wstate[w]),
        wround[w])

\* state = add_round_key(state, round_keys[Nr])
W_EB_FinalAddRoundKey(w) ==
  WStep(w, "encrypt", "eb_final_add_round_key",
        "eb_return",
        mem_enc_add_round_key(mem, w, wstate[w], RoundKeyRef(Nr)),
        wround[w])

\* state = bytes_to_state(ciphertext)
W_DB_BytesToState(w) ==
  WStep(w, "decrypt", "db_bytes_to_state",
        "db_initial_add_round_key",
        mem_bytes_to_state(mem, w, wblock[w]),
        wround[w])

\* state = add_round_key(state, round_keys[Nr])
W_DB_InitialAddRoundKey(w) ==
  WStep(w, "decrypt", "db_initial_add_round_key",
        "db_inv_shift_rows",
        mem_add_round_key(mem, w, wstate[w], RoundKeyRef(Nr)),
        Nr - 1)

W_DB_InvShiftRows(w) ==
  WStep(w, "decrypt", "db_inv_shift_rows",
        "db_inv_sub_bytes",
        mem_inv_shift_rows(mem, w, wstate[w]),
        wround[w])

W_DB_InvSubBytes(w) ==
  WStep(w, "decrypt", "db_inv_sub_bytes",
        "db_add_round_key",
        mem_inv_sub_bytes(mem, w, wstate[w]),
        wround[w])

\* state = add_round_key(state, round_keys[round_num])
W_DB_AddRoundKey(w) ==
  WStep(w, "decrypt", "db_add_round_key",
        "db_inv_mix_columns",
        mem_add_round_key(mem, w, wstate[w], RoundKeyRef(wround[w])),
        wround[w])

\* state = inv_mix_columns(state), and the next round down
W_DB_InvMixColumns(w) ==
  WStep(w, "decrypt", "db_inv_mix_columns",
        IF wround[w] - 1 > 0 THEN "db_inv_shift_rows" ELSE "db_final_inv_shift_rows",
        mem_inv_mix_columns(mem, w, wstate[w]),
        IF wround[w] - 1 > 0 THEN wround[w] - 1 ELSE wround[w])

W_DB_FinalInvShiftRows(w) ==
  WStep(w, "decrypt", "db_final_inv_shift_rows",
        "db_final_inv_sub_bytes",
        mem_inv_shift_rows(mem, w, wstate[w]),
        wround[w])

W_DB_FinalInvSubBytes(w) ==
  WStep(w, "decrypt", "db_final_inv_sub_bytes",
        "db_final_add_round_key",
        mem_inv_sub_bytes(mem, w, wstate[w]),
        wround[w])

\* state = add_round_key(state, round_keys[0])
W_DB_FinalAddRoundKey(w) ==
  WStep(w, "decrypt", "db_final_add_round_key",
        "db_return",
        mem_add_round_key(mem, w, wstate[w], RoundKeyRef(0)),
        wround[w])

W_EB_Return(w) ==
  WReturn(w, "encrypt", "eb_return", state_to_bytes(MatrixAt(mem, wstate[w])))

W_DB_Return(w) ==
  WReturn(w, "decrypt", "db_return", dec_state_to_bytes(MatrixAt(mem, wstate[w])))

\* the sequential loop of encrypt over the padded buffer, from position at:
\* ciphertext += encrypt_block(padded[i:i+block_size], key)
RECURSIVE encrypt_loop(_, _, _)
encrypt_loop(data, k, at) ==
  IF at >= Len(data) THEN << >>
  ELSE encrypt_block(encrypt_loop_block(data, at), k)
         \o encrypt_loop(data, k, at + block_size)

WorkerInit ==
  /\ Init
  /\ key = FipsKey

WorkerNext ==
  \/ \E data \in WorkerBuffers : Dispatch("encrypt", data)
  \/ \E data \in WorkerBuffers : Dispatch("decrypt", data)
  \/ \E w \in Workers : W_EB_BytesToState(w)
  \/ \E w \in Workers : W_EB_InitialAddRoundKey(w)
  \/ \E w \in Workers : W_EB_SubBytes(w)
  \/ \E w \in Workers : W_EB_ShiftRows(w)
  \/ \E w \in Workers : W_EB_MixColumns(w)
  \/ \E w \in Workers : W_EB_AddRoundKey(w)
  \/ \E w \in Workers : W_EB_FinalSubBytes(w)
  \/ \E w \in Workers : W_EB_FinalShiftRows(w)
  \/ \E w \in Workers : W_EB_FinalAddRoundKey(w)
  \/ \E w \in Workers : W_EB_Return(w)
  \/ \E w \in Workers : W_DB_BytesToState(w)
  \/ \E w \in Workers : W_DB_InitialAddRoundKey(w)
  \/ \E w \in Workers : W_DB_InvShiftRows(w)
  \/ \E w \in Workers : W_DB_InvSubBytes(w)
  \/ \E w \in Workers : W_DB_AddRoundKey(w)
  \/ \E w \in Workers : W_DB_InvMixColumns(w)
  \/ \E w \in Workers : W_DB_FinalInvShiftRows(w)
  \/ \E w \in Workers : W_DB_FinalInvSubBytes(w)
  \/ \E w \in Workers : W_DB_FinalAddRoundKey(w)
  \/ \E w \in Workers : W_DB_Return(w)

WorkerSpec ==
  WorkerInit /\ [][WorkerNext]_vars

(***************************************************************************)
(* Properties                                                              *)
(***************************************************************************)
\* the call is over
Terminated ==
  pc \in { "returned", "raised" }

\* block number j (from 0) of a buffer
BlockAt(data, j) ==
  Slice(data, j * block_size, (j + 1) * block_size)

\* C1: block round trip: for a 16-byte block B and key K,
\* decrypt_block(encrypt_block(B, K), K) returns B.
C1_BlockRoundTrip ==
  (follow = "roundtrip" /\ call = "decrypt_block" /\ Len(first_arg) = block_size)
    => /\ pc # "raised"
       /\ pc = "returned" => result = first_arg

C1_Witness ==
  /\ follow = "roundtrip"
  /\ call = "decrypt_block"
  /\ pc = "returned"
  /\ Len(first_arg) = block_size
  /\ first_result # first_arg
  /\ result = first_arg

\* C2: message round trip: for a message M of any length (empty, or a
\* multiple of 16 included) and key K, decrypt(encrypt(M, K), K) returns M.
C2_MessageRoundTrip ==
  (follow = "roundtrip" /\ call = "decrypt")
    => /\ pc # "raised"
       /\ pc = "returned" => result = first_arg

C2_Witness ==
  /\ follow = "roundtrip"
  /\ call = "decrypt"
  /\ pc = "returned"
  /\ Len(first_arg) = block_size
  /\ n_blocks = 2
  /\ result = first_arg

\* C3: the FIPS-197 vector: encrypt_block of the Appendix B plaintext under
\* the Appendix B key returns the Appendix B ciphertext, and decrypt_block of
\* that ciphertext under the same key returns the plaintext.
C3_FipsVector ==
  /\ (pc = "returned" /\ call = "encrypt_block" /\ key = FipsKey /\ arg = FipsPlaintext)
       => result = FipsCiphertext
  /\ (pc = "returned" /\ call = "decrypt_block" /\ key = FipsKey /\ arg = FipsCiphertext)
       => result = FipsPlaintext

C3_Witness ==
  /\ pc = "returned"
  /\ call = "decrypt_block"
  /\ key = FipsKey
  /\ first_call = "encrypt_block"
  /\ first_arg = FipsPlaintext
  /\ first_result = FipsCiphertext
  /\ arg = FipsCiphertext
  /\ result = FipsPlaintext

\* C4: PKCS7 padding in encrypt: a message of length len gets n bytes of value
\* n appended, n = 16 - (len mod 16) in 1..16 (a full block of 0x10 when len
\* is a multiple of 16, zero included), and the ciphertext returned has length
\* len + n, a positive multiple of 16 greater than len.
C4_Padding ==
  call = "encrypt"
    => LET len == Len(arg)
           n   == Len(padded) - len
       IN  /\ n \in 1..block_size
           /\ n = block_size - (len % block_size)
           /\ len % block_size = 0 => n = block_size
           /\ SubSeq(padded, 1, len) = arg
           /\ \A k \in (len + 1)..Len(padded) : padded[k] = n
           /\ pc = "returned"
                => /\ Len(result) = len + n
                   /\ Len(result) % block_size = 0
                   /\ Len(result) > 0
                   /\ Len(result) > len

C4_Witness ==
  /\ call = "encrypt"
  /\ pc = "returned"
  /\ Len(arg) = block_size
  /\ Len(result) = 2 * block_size
  /\ BlockAt(padded, 1) = Repeat(block_size, block_size)

\* C5: independent blocks: block j of what encrypt returns is encrypt_block
\* of block j of the padded message, whatever the other blocks are, so equal
\* plaintext blocks give equal ciphertext blocks; and block j of what decrypt
\* has before it unpads is decrypt_block of block j of the ciphertext.
C5_IndependentBlocks ==
  /\ (call = "encrypt" /\ pc = "returned")
       => /\ Len(result) = Len(padded)
          /\ \A j \in 0..(n_blocks - 1) :
               BlockAt(result, j) = encrypt_block(BlockAt(padded, j), key)
          /\ \A j, k \in 0..(n_blocks - 1) :
               BlockAt(padded, j) = BlockAt(padded, k)
                 => BlockAt(result, j) = BlockAt(result, k)
  /\ (call = "decrypt" /\ pc = "returned")
       => /\ Len(acc) = Len(arg)
          /\ \A j \in 0..(n_blocks - 1) :
               BlockAt(acc, j) = decrypt_block(BlockAt(arg, j), key)

C5_Witness ==
  /\ call = "encrypt"
  /\ pc = "returned"
  /\ n_blocks = 2
  /\ BlockAt(padded, 0) = BlockAt(padded, 1)
  /\ BlockAt(result, 0) = BlockAt(result, 1)

\* C6: determinism: encrypt_block run twice on the same 16-byte block under
\* the same key returns the same ciphertext both times, whatever the first
\* run left behind.
C6_Determinism ==
  (follow = "repeat" /\ call = "encrypt_block")
    => /\ arg = first_arg
       /\ pc # "raised"
       /\ pc = "returned" => result = first_result

C6_Witness ==
  /\ follow = "repeat"
  /\ call = "encrypt_block"
  /\ pc = "returned"
  /\ Len(arg) = block_size
  /\ state # << >>
  /\ result = first_result

\* C7: encrypt_block and decrypt_block fail (InvalidBlockLength) on a block
\* that is not exactly 16 bytes long, shorter or longer, and never return a
\* result for it.  The source defines no exception of its own: any exception
\* raised stands for the error here.
C7_InvalidBlockLength ==
  (call \in { "encrypt_block", "decrypt_block" } /\ Len(arg) # block_size /\ Terminated)
    => pc = "raised"

\* the buffer ends in a well-formed PKCS7 trailer
WellFormedTrailer(buf) ==
  /\ Len(buf) > 0
  /\ LET n == buf[Len(buf)]
     IN  /\ n \in 1..block_size
         /\ n <= Len(buf)
         /\ \A k \in (Len(buf) - n + 1)..Len(buf) : buf[k] = n

\* C8: decrypt reports InvalidPadding, and returns no plaintext, whenever the
\* decrypted buffer does not end in a well-formed PKCS7 trailer.
C8_InvalidPadding ==
  (call = "decrypt" /\ Terminated /\ i >= Len(arg) /\ Len(acc) > 0
     /\ ~WellFormedTrailer(acc))
    => pc = "raised"

\* C9: decrypt of a ciphertext of length 0, or of a length that is no
\* multiple of 16, fails at the boundary, before any block has been
\* processed.  Any exception raised stands for the taxonomy error here.
C9_BoundaryErrors ==
  (call = "decrypt" /\ Terminated /\ (Len(arg) = 0 \/ Len(arg) % block_size # 0))
    => /\ pc = "raised"
       /\ n_blocks = 0

\* the statements of the block core after round_keys = key_expansion(key)
AfterKeyExpansion ==
  pc \notin { "idle", "encrypt_loop", "decrypt_loop", "returned", "raised",
              "eb_key_expansion", "db_key_expansion" }

ColumnMajor(data, st) ==
  \A idx \in 0..(block_size - 1) : st[(idx % 4) + 1][(idx \div 4) + 1] = data[idx + 1]

\* C11: for every 16-byte d, bytes_to_state(d)[r][c] = d[r + 4*c] and
\* state_to_bytes(bytes_to_state(d)) = d; for every State S,
\* bytes_to_state(state_to_bytes(S)) = S.  Both copies (aes_encrypt.py and
\* aes_decrypt.py), on every block and every State the cipher goes through,
\* and the State loaded by encrypt_block / decrypt_block is that mapping.
C11_ByteStateMapping ==
  /\ Len(block) = block_size =>
       /\ \A r \in 0..3, c \in 0..3 :
            /\ bytes_to_state(block)[r + 1][c + 1] = block[r + 4 * c + 1]
            /\ dec_bytes_to_state(block)[r + 1][c + 1] = block[r + 4 * c + 1]
       /\ ColumnMajor(block, bytes_to_state(block))
       /\ state_to_bytes(bytes_to_state(block)) = block
       /\ dec_state_to_bytes(dec_bytes_to_state(block)) = block
  /\ state # <<>> =>
       /\ bytes_to_state(state_to_bytes(state)) = state
       /\ dec_bytes_to_state(dec_state_to_bytes(state)) = state
  /\ pc \in {"eb_initial_add_round_key", "db_initial_add_round_key"}
       => ColumnMajor(block, state)

\* a 16-byte block was just loaded and its bytes 1 and 4 differ, so a
\* row-major and a column-major load are told apart
C11_Witness ==
  /\ pc = "eb_initial_add_round_key"
  /\ Len(block) = block_size
  /\ block[2] # block[5]
  /\ state[2][1] = block[2]
  /\ state[1][2] = block[5]
  /\ state_to_bytes(state) = block

\* C13: inv_shift_rows(shift_rows(S)) = S and shift_rows(inv_shift_rows(S)) = S
\* for every State S the cipher goes through.
C13_ShiftRowsInverse ==
  state # <<>> =>
    /\ inv_shift_rows(shift_rows(state)) = state
    /\ shift_rows(inv_shift_rows(state)) = state

\* ShiftRows has just run in a round and moved bytes; undoing it and
\* redoing it gives the State back
C13_Witness ==
  /\ pc = "eb_mix_columns"
  /\ inv_shift_rows(state) # state
  /\ shift_rows(state) # state
  /\ shift_rows(inv_shift_rows(state)) = state

\* every byte of row r of st is a byte of row r of from, and the other way
SameRowContents(from, st) ==
  \A r \in 1..4 :
    {from[r][c] : c \in 1..4} = {st[r][c] : c \in 1..4}

\* C20: shift_rows(S)[r][c] = S[r][(c + r) mod 4] and
\* inv_shift_rows(S)[r][c] = S[r][(c - r) mod 4] for r, c in 0..3; row 0 is
\* unchanged by both and no byte moves to a different row.
C20_ShiftRowsRotation ==
  state # <<>> =>
    /\ \A r \in 0..3, c \in 0..3 :
         /\ shift_rows(state)[r + 1][c + 1] = state[r + 1][((c + r) % 4) + 1]
         /\ inv_shift_rows(state)[r + 1][c + 1] = state[r + 1][((c + 4 - r) % 4) + 1]
    /\ shift_rows(state)[1] = state[1]
    /\ inv_shift_rows(state)[1] = state[1]
    /\ SameRowContents(state, shift_rows(state))
    /\ SameRowContents(state, inv_shift_rows(state))
    /\ \A r \in 1..4 : Len(shift_rows(state)[r]) = 4 /\ Len(inv_shift_rows(state)[r]) = 4

\* a State about to be shifted whose rows 1 and 3 have four different bytes,
\* so each rotation distance gives a different row
C20_Witness ==
  /\ pc \in {"eb_shift_rows", "db_inv_shift_rows"}
  /\ Cardinality({state[4][c] : c \in 1..4}) = 4
  /\ Cardinality({state[2][c] : c \in 1..4}) = 4
  /\ shift_rows(state)[4][1] = state[4][4]
  /\ inv_shift_rows(state)[4][1] = state[4][2]

(***************************************************************************)
(* MixColumns and its inverse                                              *)
(***************************************************************************)
\* C12: inv_mix_columns(mix_columns(S)) = S for every State S that
\* encrypt_block is about to mix, and
\* inv_mix_single_column(mix_single_column(c)) = c for each column c of
\* every State that decrypt_block is about to un-mix.
C12_MixColumnsInverse ==
  /\ pc = "eb_mix_columns" =>
       inv_mix_columns(mix_columns(state)) = state
  /\ pc = "db_inv_mix_columns" =>
       \A col \in 1..4 :
         inv_mix_single_column(mix_single_column(Column(state, col)))
           = Column(state, col)

\* MixColumns has just run in a round and changed the State; the inverse
\* gives back the State it was applied to
C12_Witness ==
  /\ pc = "eb_add_round_key"
  /\ inv_mix_columns(state) # state
  /\ mix_columns(inv_mix_columns(state)) = state
  /\ inv_mix_columns(mix_columns(inv_mix_columns(state))) = inv_mix_columns(state)

(***************************************************************************)
(* The order of the steps of encrypt_block and decrypt_block               *)
(***************************************************************************)
IsPrefix(p, q) ==
  /\ Len(p) <= Len(q)
  /\ p = SubSeq(q, 1, Len(p))

\* the steps of rounds 1..r of the cipher, in ascending order
RECURSIVE CipherRounds(_)
CipherRounds(r) ==
  IF r = 0 THEN << >>
  ELSE CipherRounds(r - 1)
         \o << << "SubBytes" >>, << "ShiftRows" >>, << "MixColumns" >>,
               << "AddRoundKey", r >> >>

CipherOrder ==
  << << "KeyExpansion" >>, << "AddRoundKey", 0 >> >>
    \o CipherRounds(9)
    \o << << "SubBytes" >>, << "ShiftRows" >>, << "AddRoundKey", 10 >>, << "Done" >> >>

\* the steps of rounds 9 down to r of the inverse cipher, in descending order
RECURSIVE InverseCipherRounds(_)
InverseCipherRounds(r) ==
  IF r > 9 THEN << >>
  ELSE InverseCipherRounds(r + 1)
         \o << << "InvShiftRows" >>, << "InvSubBytes" >>, << "AddRoundKey", r >>,
               << "InvMixColumns" >> >>

InverseCipherOrder ==
  << << "AddRoundKey", 10 >> >>
    \o InverseCipherRounds(1)
    \o << << "InvShiftRows" >>, << "InvSubBytes" >>, << "AddRoundKey", 0 >> >>

\* the round keys added so far, in the order they were added
KeysAdded(log) ==
  LET adds == SelectSeq(log, LAMBDA e : e[1] = "AddRoundKey")
  IN  [n \in 1..Len(adds) |-> adds[n][2]]

Count(log, op) ==
  Len(SelectSeq(log, LAMBDA e : e[1] = op))

\* the transformations of the cipher among the steps: all but the key
\* expansion before them and the return after them
Transformations(log) ==
  SelectSeq(log, LAMBDA e : e[1] \notin {"KeyExpansion", "Done"})

\* the call of the block function has returned
BlockDone ==
  steps # << >> /\ steps[Len(steps)] = << "Done" >>

\* C16: encrypt_block runs key expansion, AddRoundKey(K0), then for
\* r = 1..9 SubBytes, ShiftRows, MixColumns, AddRoundKey(Kr), then SubBytes,
\* ShiftRows, AddRoundKey(K10), then Done: at every moment what it has done
\* is a prefix of that order, it returns only after all of it, MixColumns
\* has then run exactly 9 times and the keys added are K0..K10 ascending.
C16_EncryptBlockOrder ==
  call \in {"encrypt_block", "encrypt"} =>
    /\ IsPrefix(steps, CipherOrder)
    /\ (pc = "returned" \/ (n_blocks > 0 /\ pc = "encrypt_loop") \/ BlockDone) =>
         /\ steps = CipherOrder
         /\ Count(steps, "MixColumns") = 9
         /\ KeysAdded(steps) = [n \in 1..11 |-> n - 1]
    /\ \A m, n \in 1..Len(KeysAdded(steps)) :
         m < n => KeysAdded(steps)[m] < KeysAdded(steps)[n]

\* encrypt_block has returned after all its steps, the last round without
\* MixColumns
C16_Witness ==
  /\ call = "encrypt_block"
  /\ pc = "returned"
  /\ Len(steps) = 42
  /\ steps[Len(steps) - 4] = << "AddRoundKey", 9 >>
  /\ steps[Len(steps) - 1] = << "AddRoundKey", 10 >>
  /\ Count(steps, "MixColumns") = 9
  /\ Count(steps, "SubBytes") = 10

\* C17: decrypt_block adds the round keys in strictly descending order
\* 10, 9, ..., 0, each once: AddRoundKey(K10), then for r = 9 down to 1
\* InvShiftRows, InvSubBytes, AddRoundKey(Kr), InvMixColumns, then
\* InvShiftRows, InvSubBytes, AddRoundKey(K0); InvMixColumns runs exactly
\* 9 times.
C17_DecryptBlockOrder ==
  call \in {"decrypt_block", "decrypt"} =>
    /\ IsPrefix(Transformations(steps), InverseCipherOrder)
    /\ \A m, n \in 1..Len(KeysAdded(steps)) :
         m < n => KeysAdded(steps)[m] > KeysAdded(steps)[n]
    /\ ((call = "decrypt_block" /\ pc = "returned") \/ BlockDone) =>
         /\ Transformations(steps) = InverseCipherOrder
         /\ KeysAdded(steps) = [n \in 1..11 |-> 11 - n]
         /\ Count(steps, "InvMixColumns") = 9

\* decrypt_block has returned after all its steps, K0 added last
C17_Witness ==
  /\ call = "decrypt_block"
  /\ pc = "returned"
  /\ Len(Transformations(steps)) = 40
  /\ KeysAdded(steps)[1] = 10
  /\ KeysAdded(steps)[11] = 0
  /\ Count(steps, "InvMixColumns") = 9
  /\ steps[Len(steps) - 1] = << "AddRoundKey", 0 >>

(***************************************************************************)
(* GF(2^8) arithmetic                                                      *)
(***************************************************************************)
\* doubling as it is specified: (2*a) mod 256, XOR 0x1B when the high bit
\* of a is set
Double(a) ==
  IF a >= 128 THEN Xor((2 * a) % 256, 27) ELSE (2 * a) % 256

RECURSIVE DoubleTimes(_, _)
DoubleTimes(a, k) ==
  IF k = 0 THEN a ELSE Double(DoubleTimes(a, k - 1))

\* the fixed algorithm over bits k..7 of b: a doubled k times is XORed
\* into the accumulator when bit k of b is set
RECURSIVE FixedBits(_, _, _, _)
FixedBits(a, b, k, accumulator) ==
  IF k > 7 THEN accumulator
  ELSE FixedBits(a, b, k + 1,
                 IF (b \div (2 ^ k)) % 2 = 1
                   THEN Xor(accumulator, DoubleTimes(a, k))
                   ELSE accumulator)

FixedEight(a, b) ==
  FixedBits(a, b, 0, 0)

GfReturned ==
  gf_pc = "gf_returned"

\* C14: gf_mult(a, b) = gf_mult(b, a) for every pair of bytes a, b: the
\* value a call returns is the value of the call with the arguments
\* exchanged, in both modules.
C14_GfMultCommutative ==
  GfReturned =>
    /\ gf_result = gf_mult(gf_b, gf_a)
    /\ gf_mult(gf_a, gf_b) = gf_mult(gf_b, gf_a)
    /\ dec_gf_mult(gf_a, gf_b) = dec_gf_mult(gf_b, gf_a)

\* 0x57 * 0x02 has returned after the two passes its second argument
\* takes, and the seven passes of 0x02 * 0x57 give the same value
C14_Witness ==
  /\ GfReturned
  /\ gf_a = 87
  /\ gf_b = 2
  /\ gf_iterations = 2
  /\ gf_result = 174
  /\ gf_mult(2, 87) = 174

\* C15: gf_mult(a, 0) = 0 and gf_mult(a, 1) = a for every byte a, the
\* result of gf_mult is a byte for all bytes a, b, and
\* 0x57 * 0x02 = 0xae, 0x57 * 0x03 = 0xf9, 0x57 * 0x13 = 0xfe.
C15_GfMultLaws ==
  /\ gf_result \in Byte
  /\ gf_temp_a \in Byte
  /\ gf_mult(gf_a, 0) = 0
  /\ gf_mult(gf_a, 1) = gf_a
  /\ GfReturned =>
       /\ gf_result = gf_mult(gf_a, gf_b)
       /\ gf_result = dec_gf_mult(gf_a, gf_b)
       /\ gf_b = 0 => gf_result = 0
       /\ gf_b = 1 => gf_result = gf_a
       /\ (gf_a = 87 /\ gf_b = 2) => gf_result = 174
       /\ (gf_a = 87 /\ gf_b = 3) => gf_result = 249
       /\ (gf_a = 87 /\ gf_b = 19) => gf_result = 254

\* 0x57 * 0x13 has returned 0xfe
C15_Witness ==
  /\ GfReturned
  /\ gf_a = 87
  /\ gf_b = 19
  /\ gf_result = 254

\* C18: for every byte a, xtime(a) is (2*a) mod 256 when the high bit of a
\* is clear and that XOR 0x1B when it is set, it is a byte, and the copies
\* of xtime in the two modules agree; the loop of gf_mult doubles temp_a
\* that way.
C18_Xtime ==
  /\ \A a \in {gf_a, gf_temp_a} :
       a \in Byte =>
         /\ xtime(a) = Double(a)
         /\ xtime(a) \in Byte
         /\ dec_xtime(a) = xtime(a)
  /\ (gf_pc = "gf_while" /\ gf_iterations <= 8) =>
       gf_temp_a = DoubleTimes(gf_a, gf_iterations)

\* 0x80 has been doubled once in the loop, with the reduction: 0x1b
C18_Witness ==
  /\ gf_pc = "gf_while"
  /\ gf_a = 128
  /\ gf_iterations = 1
  /\ gf_temp_a = 27
  /\ xtime(64) = 128

\* the loop has run at most 8 times (what is left of b after n passes is
\* b div 2^n, nothing after 8) and the value returned is the value of the
\* fixed algorithm over the 8 bits of b
RussianPeasantBound ==
  /\ gf_iterations <= 8
  /\ gf_pc = "gf_while" => gf_temp_b = gf_b \div (2 ^ gf_iterations)
  /\ gf_iterations = 8 => gf_temp_b = 0
  /\ GfReturned =>
       /\ gf_temp_b = 0
       /\ gf_result = FixedEight(gf_a, gf_b)
       /\ gf_mult(gf_a, gf_b) = FixedEight(gf_a, gf_b)

\* C19: for all bytes a, b the loop of gf_mult never runs more than 8
\* times, every call that has entered the loop returns, and it returns the
\* value of the fixed 8-iteration algorithm over the bits of b.
C19_RussianPeasant ==
  /\ []RussianPeasantBound
  /\ (gf_pc = "gf_while") ~> GfReturned

\* a call with the high bit of b set has returned after all 8 passes
C19_Witness ==
  /\ GfReturned
  /\ gf_b = 255
  /\ gf_a = 87
  /\ gf_iterations = 8
  /\ gf_result = FixedEight(87, 255)

(***************************************************************************)
(* AddRoundKey                                                             *)
(***************************************************************************)
\* the exclusive or of two bytes, bit by bit
RECURSIVE BitXor(_, _, _)
BitXor(a, b, k) ==
  IF k > 7 THEN 0
  ELSE (((a \div (2 ^ k)) + (b \div (2 ^ k))) % 2) * (2 ^ k) + BitXor(a, b, k + 1)

\* the round keys the block functions pass to add_round_key: the first, the
\* last and the one of the round in course
KeysInUse ==
  { round_keys[1], round_keys[round_num + 1], round_keys[Nr + 1] }

\* the statements that call add_round_key
AtAddRoundKey ==
  pc \in { "eb_initial_add_round_key", "eb_add_round_key", "eb_final_add_round_key",
           "db_initial_add_round_key", "db_add_round_key", "db_final_add_round_key" }

\* C21: add_round_key(S, K)[i][j] = S[i][j] XOR K[i][j] and
\* add_round_key(add_round_key(S, K), K) = S, for every State S that a
\* block function is about to combine with a round key and the round keys K
\* it uses.
C21_AddRoundKeyXor ==
  AtAddRoundKey =>
    \A K \in KeysInUse :
      /\ \A r \in 1..4, c \in 1..4 :
           add_round_key(state, K)[r][c] = BitXor(state[r][c], K[r][c], 0)
      /\ add_round_key(add_round_key(state, K), K) = state

\* decrypt_block is about to add the key of round 5: that changes the
\* State, and adding the same key again gives back the State before
C21_Witness ==
  /\ pc = "db_add_round_key"
  /\ round_num = 5
  /\ add_round_key(state, round_keys[round_num + 1]) # state
  /\ round_keys[round_num + 1][2][1] # round_keys[round_num + 1][1][2]
  /\ add_round_key(add_round_key(state, round_keys[round_num + 1]),
                   round_keys[round_num + 1]) = state

(***************************************************************************)
(* Unpadding                                                               *)
(***************************************************************************)
\* decrypt has joined the blocks it decrypted and come to its last lines
\* with a buffer that has a trailing byte
AfterDecryptLoop ==
  call = "decrypt" /\ Terminated /\ i >= Len(arg) /\ Len(acc) > 0

\* C22: with n the trailing byte of the decrypted buffer, decrypt returns
\* the buffer without its last n bytes when 1 <= n <= 16 and the last n
\* bytes all equal n; otherwise it returns the whole buffer, and in neither
\* case does it raise.
C22_Unpadding ==
  AfterDecryptLoop =>
    /\ pc = "returned"
    /\ err = "none"
    /\ LET n == acc[Len(acc)]
       IN  IF WellFormedTrailer(acc)
             THEN /\ Len(result) = Len(acc) - n
                  /\ result = SubSeq(acc, 1, Len(acc) - n)
             ELSE result = acc

\* decrypt has returned a whole decrypted block whose trailing byte is a
\* padding length but whose last bytes are not all that byte
C22_Witness ==
  /\ AfterDecryptLoop
  /\ pc = "returned"
  /\ acc[Len(acc)] \in 1..block_size
  /\ ~WellFormedTrailer(acc)
  /\ result = acc
  /\ Len(result) = block_size

(***************************************************************************)
(* Blocks in parallel; arguments left unchanged                            *)
(***************************************************************************)
\* every worker that was handed a block has written its slot
AllDone ==
  /\ job # "none"
  /\ \A w \in Workers : wpc[w] \in {"done", "unused"}

\* the buffer the blocks were cut from, and the slots put together
RECURSIVE JoinUpTo(_, _)
JoinUpTo(parts, w) ==
  IF w = 0 THEN << >> ELSE JoinUpTo(parts, w - 1) \o parts[w]

\* the State of a worker is made of lists of the worker's own region
OwnsState(w) ==
  wstate[w] # << >> =>
    /\ wstate[w][1] = w
    /\ \A c \in 1..4 : Deref(mem, wstate[w])[c][1] = w

\* C23: with the blocks of a padded message handed to workers whose round
\* steps interleave in any order, every worker's State is made of lists of
\* its own, the slots put together when all are done are the ciphertext of
\* the sequential loop of encrypt, and the shared key schedule is at every
\* moment the one expanded from the key.
C23_BlockParallel ==
  job = "encrypt" =>
    /\ \A w \in Workers : OwnsState(w)
    /\ LET expanded == key_expansion(key)
       IN  \A r \in 0..Nr : MatrixAt(mem, RoundKeyRef(r)) = expanded[r + 1]
    /\ AllDone =>
         JoinUpTo(slots, Cardinality(Workers))
           = encrypt_loop(JoinUpTo(wblock, Cardinality(Workers)), key, 0)

\* the worker of the second block has written its slot before the worker
\* of the first block has begun
C23_Witness ==
  /\ job = "encrypt"
  /\ wpc[1] = "eb_bytes_to_state"
  /\ wpc[2] = "done"
  /\ Len(slots[2]) = block_size
  /\ slots[1] = << >>
  /\ wblock[1] # wblock[2]

\* the statements of the block functions that call shift_rows,
\* inv_shift_rows, mix_columns, inv_mix_columns and add_round_key
PrimitiveCalls ==
  { "eb_shift_rows", "eb_final_shift_rows", "eb_mix_columns",
    "db_inv_shift_rows", "db_final_inv_shift_rows", "db_inv_mix_columns",
    "db_initial_add_round_key", "db_add_round_key", "db_final_add_round_key" }

\* the list was not there before the step
IsNew(ref) ==
  ref[2] > Len(mem[ref[1]])

\* worker w's step left every list that existed as it was (the State and
\* the round key passed in among them) and bound the worker's state to a
\* new list of four new rows
ArgumentsUnchanged(w) ==
  /\ \A r \in Regions :
       /\ Len(mem'[r]) >= Len(mem[r])
       /\ \A n \in 1..Len(mem[r]) : mem'[r][n] = mem[r][n]
  /\ MatrixAt(mem', wstate[w]) = MatrixAt(mem, wstate[w])
  /\ \A r \in 0..Nr : MatrixAt(mem', RoundKeyRef(r)) = MatrixAt(mem, RoundKeyRef(r))
  /\ IsNew(wstate'[w])
  /\ \A c \in 1..4 : IsNew(Deref(mem', wstate'[w])[c])

\* the round keys are after the step what they were before it
RoundKeysUnchanged ==
  \A r \in 0..Nr : MatrixAt(mem', RoundKeyRef(r)) = MatrixAt(mem, RoundKeyRef(r))

\* C24: each call of shift_rows, inv_shift_rows, mix_columns,
\* inv_mix_columns and add_round_key returns a newly built State, row 0
\* included, and leaves the State and the round key passed to it as they
\* were; the round keys are the same before and after every step of every
\* round.
C24_ArgumentsUnchanged ==
  [][/\ \A w \in Workers :
          (wpc[w] \in PrimitiveCalls /\ wpc'[w] # wpc[w]) => ArgumentsUnchanged(w)
     /\ job # "none" => RoundKeysUnchanged]_vars

\* shift_rows has just returned: row 0 of its result is another list than
\* row 0 of its argument, the State before it, with the same bytes
C24_Witness ==
  /\ job = "encrypt"
  /\ wpc[1] = "eb_mix_columns"
  /\ wround[1] = 2
  /\ LET before == << 1, wstate[1][2] - 5 >>
     IN  /\ Deref(mem, wstate[1])[1] # Deref(mem, before)[1]
         /\ MatrixAt(mem, wstate[1])[1] = MatrixAt(mem, before)[1]
         /\ MatrixAt(mem, wstate[1]) = shift_rows(MatrixAt(mem, before))

=============================================================================
